---- MODULE Spec2Model ----
(***************************************************************************)
(* A model of src/src/nm_pathfinder.py: find_path, find_box,               *)
(* calculate_detail_point, dist and dijkstras_shortest_path.               *)
(*                                                                         *)
(* One behaviour is one call find_path(source_point, destination_point,    *)
(* mesh).  The call is cut at the heads of its two loops: Start is lines   *)
(* 28-41, every iteration of the main loop (lines 43-63) is one action,    *)
(* every iteration of the backtracking loop (lines 48-50) is one action,   *)
(* and the two ways out (lines 51-53 with 66-70, and 66-68) are one action *)
(* each.                                                                   *)
(*                                                                         *)
(* Coordinates are integers.  dist (math.sqrt on floats) is modelled in    *)
(* fixed point: lengths are integers in units of 1/Scale, rounded down.    *)
(*                                                                         *)
(* Spec and FairSpec are the calls of find_path.  HelperSpec is one direct *)
(* call of find_box or of calculate_detail_point on arguments of its own;  *)
(* DijkstraSpec is one call of dijkstras_shortest_path.  In each           *)
(* specification the variables of the other functions stay idle.           *)
(***************************************************************************)
EXTENDS Integers, Sequences, FiniteSets

VARIABLES
    mesh,               \* the mesh argument: [boxes : Seq(Box), adj : [Box -> Seq(Box)]]
    source_point,       \* argument
    destination_point,  \* argument
    pc,                 \* "start", "loop", "backtrack", "returned", "raised"
    starting_box,       \* line 28
    destination_box,    \* line 29
    path,               \* line 31
    boxes,              \* line 32: box -> parent
    detail_point,       \* line 33: box -> point
    start_pathcosts,    \* line 34: box -> cost
    queue,              \* line 36: the heap, as the set of its entries <<cost, box>>
    current_box,        \* line 44 / 50
    popped,             \* history: the entries popped by line 44, in order
    adj_reads,          \* history: the boxes whose adjacency list line 55 has read
    result,             \* what the caller gets: [path, explored] (lines 68, 70)
    printed,            \* line 67: whether "No path found" was printed
    call,               \* a direct call of find_box or calculate_detail_point:
                        \* its name, arguments and, once it returned, its value
    graph,              \* dijkstras_shortest_path: the level, [spaces : cell -> cost]
    initial_position,   \* argument
    destination,        \* argument
    paths,              \* line 158: cell -> previous cell
    pathcosts,          \* line 159: cell -> cost
    dsp_queue,          \* line 160: the heap, as the set of its entries <<cost, cell>>
    dsp_pc,             \* "start", "loop", "returned"
    dsp_result          \* what dijkstras_shortest_path returns (lines 168, 178)

find_path_vars == <<mesh, source_point, destination_point, pc, starting_box,
                    destination_box, path, boxes, detail_point,
                    start_pathcosts, queue, current_box, popped, adj_reads,
                    result, printed>>

dijkstra_vars == <<graph, initial_position, destination, paths, pathcosts,
                   dsp_queue, dsp_pc, dsp_result>>

vars == <<mesh, source_point, destination_point, pc, starting_box,
          destination_box, path, boxes, detail_point, start_pathcosts, queue,
          current_box, popped, adj_reads, result, printed, call,
          dijkstra_vars>>

----------------------------------------------------------------------------
(* Bounds of the model *)

\* query points are drawn from the lattice 0..MaxX \X 0..MaxY
MaxX == 6
MaxY == 4
\* lengths are kept in units of 1/Scale
Scale == 1000

----------------------------------------------------------------------------
(* Values *)

\* Python's None; a box is a 4-tuple, so the empty tuple is no box
None == << >>

Min2(a, b) == IF a < b THEN a ELSE b
Max2(a, b) == IF a > b THEN a ELSE b

RECURSIVE SqrtSearch(_, _, _)
\* the largest r in lo..hi with r*r <= n (lo*lo <= n < (hi+1)*(hi+1))
SqrtSearch(n, lo, hi) ==
    IF lo >= hi THEN lo
    ELSE CHOOSE r \in {IF mid * mid <= n THEN SqrtSearch(n, mid, hi)
                        ELSE SqrtSearch(n, lo, mid - 1) :
                            mid \in {(lo + hi + 1) \div 2}} : TRUE

\* math.sqrt, rounded down to an integer
ISqrt(n) ==
    CHOOSE r \in {SqrtSearch(v, 0, Min2(v, 46340)) : v \in {n}} : TRUE

\* dist(point1, point2), lines 133-143, in units of 1/Scale
Dist(point1, point2) ==
    ISqrt(((point2[1] - point1[1]) * (point2[1] - point1[1])
           + (point2[2] - point1[2]) * (point2[2] - point1[2])) * Scale * Scale)

\* the test of line 88 with < for the second <= of each range
ContainsHalfOpen(box, point) ==
    /\ box[1] <= point[1] /\ point[1] < box[2]
    /\ box[3] <= point[2] /\ point[2] < box[4]

\* the test of line 88: the point is within the box's closed ranges
Contains(box, point) ==
    /\ box[1] <= point[1] /\ point[1] <= box[2]
    /\ box[3] <= point[2] /\ point[2] <= box[4]

RECURSIVE FindBoxFrom(_, _, _)
FindBoxFrom(point, bs, i) ==
    IF i > Len(bs) THEN None
    ELSE IF Contains(bs[i], point) THEN bs[i]
    ELSE FindBoxFrom(point, bs, i + 1)

\* find_box(point, mesh), lines 72-91: the first box of mesh["boxes"] that
\* contains the point, None when there is none
FindBox(point, m) == FindBoxFrom(point, m.boxes, 1)

\* lines 116-121 with the two bounds of the range exchanged
ClampCoordSwapped(v, lo, hi) == IF v < lo THEN hi ELSE IF v > hi THEN lo ELSE v

\* lines 116-121 and 124-129: one coordinate against the intersection range
ClampCoord(v, lo, hi) == IF v < lo THEN lo ELSE IF v > hi THEN hi ELSE v

\* lines 93-131 with min and max exchanged in lines 112-113: the range
\* spanned by the two boxes for the range they share
CalculateDetailPointUnion(box1, box2, point) ==
    LET x_range == <<Min2(box1[1], box2[1]), Max2(box1[2], box2[2])>>
        y_range == <<Min2(box1[3], box2[3]), Max2(box1[4], box2[4])>>
    IN  <<ClampCoord(point[1], x_range[1], x_range[2]),
          ClampCoord(point[2], y_range[1], y_range[2])>>

\* calculate_detail_point(box1, box2, point), lines 93-131
CalculateDetailPoint(box1, box2, point) ==
    LET x_range == <<Max2(box1[1], box2[1]), Min2(box1[2], box2[2])>>
        y_range == <<Max2(box1[3], box2[3]), Min2(box1[4], box2[4])>>
    IN  <<ClampCoord(point[1], x_range[1], x_range[2]),
          ClampCoord(point[2], y_range[1], y_range[2])>>

----------------------------------------------------------------------------
(* The heap of line 36, by its entries <<cost, box>>.  An entry is pushed    *)
(* only with a cost strictly below the box's recorded one (line 59), so no   *)
(* entry is ever in the heap twice and the set of entries is the heap.       *)

RECURSIVE TupleLess(_, _, _)
\* Python's order on tuples of integers, from position i
TupleLess(a, b, i) ==
    IF i > Len(a) THEN i <= Len(b)
    ELSE IF i > Len(b) THEN FALSE
    ELSE IF a[i] # b[i] THEN a[i] < b[i]
    ELSE TupleLess(a, b, i + 1)

\* (cost, box) < (cost', box'), the order heapq keeps
EntryLess(e, f) == e[1] < f[1] \/ (e[1] = f[1] /\ TupleLess(e[2], f[2], 1))

\* line 44 on entries written (box, cost) in lines 41 and 63: the heap
\* orders by the box first
HeapMinBoxFirst(q) ==
    CHOOSE e \in q :
        \A f \in q \ {e} :
            TupleLess(e[2], f[2], 1) \/ (e[2] = f[2] /\ e[1] < f[1])

\* the entry heappop returns (line 44)
HeapMin(q) == CHOOSE e \in q : \A f \in q \ {e} : EntryLess(e, f)

\* heappush(queue, entry), lines 41 and 63
HeapPush(q, e) == q \cup {e}

----------------------------------------------------------------------------
(* The inputs: meshes in the format of the mesh reference (lines 1-8) and    *)
(* query points.                                                             *)

Range(seq) == {seq[i] : i \in 1..Len(seq)}

\* five boxes with disjoint interiors: a large box, a row of three on top of
\* it and a small box at its lower left
Catalogue ==
    << <<1, 6, 0, 3>>, <<0, 4, 3, 4>>, <<4, 5, 3, 4>>, <<5, 6, 3, 4>>,
       <<0, 1, 0, 1>> >>

\* the two adjacent unit boxes A = (0,1,0,1) and B = (1,2,0,1), in tenths
UnitBoxes == << <<0, 10, 0, 10>>, <<10, 20, 0, 10>> >>

\* two boxes share an edge: they touch on one axis and overlap on the other
SharedEdge(a, b) ==
    LET ox == Min2(a[2], b[2]) - Max2(a[1], b[1])
        oy == Min2(a[4], b[4]) - Max2(a[3], b[3])
    IN  (ox = 0 /\ oy > 0) \/ (oy = 0 /\ ox > 0)

\* the mesh of the boxes of cat that are in S: "boxes" in the order of cat,
\* "adj" an edge between every two boxes that share an edge (symmetric)
MeshOf(cat, S) ==
    LET In(b) == b \in S
    IN  [boxes |-> SelectSeq(cat, In),
         adj   |-> [b \in S |->
                      LET Adjacent(c) == c \in S /\ c # b /\ SharedEdge(b, c)
                      IN  SelectSeq(cat, Adjacent)]]

Meshes ==
    {MeshOf(Catalogue, S) : S \in SUBSET Range(Catalogue)}
        \cup {MeshOf(UnitBoxes, Range(UnitBoxes))}

\* the lattice, and the two query points (0.2,0.5), (1.8,0.5) in tenths
Points == ((0..MaxX) \X (0..MaxY)) \cup {<<2, 5>>, <<18, 5>>}

----------------------------------------------------------------------------
(* find_path, lines 12-70 *)

\* d[k] = v on a dict
Put(d, k, v) == [x \in (DOMAIN d) \cup {k} |-> IF x = k THEN v ELSE d[x]]

\* the dicts and the heap of lines 32-36 as one value
Locals(bx, dp, pc0, q) ==
    [boxes |-> bx, detail_point |-> dp, start_pathcosts |-> pc0, queue |-> q]

\* line 56 with the adjacent box left out: the detail point of the current
\* box is clamped into the current box alone
PotentialDetailPointOwnBox(r, cur, adjacent_box) ==
    CalculateDetailPoint(cur, cur, r.detail_point[cur])

\* line 56
PotentialDetailPoint(r, cur, adjacent_box) ==
    CalculateDetailPoint(adjacent_box, cur, r.detail_point[cur])

\* line 57 without start_pathcosts[current_box]: the length of the last
\* segment alone
CostToChildLastSegment(r, cur, adjacent_box) ==
    Dist(r.detail_point[cur], PotentialDetailPoint(r, cur, adjacent_box))

\* line 57
CostToChild(r, cur, adjacent_box) ==
    r.start_pathcosts[cur]
        + Dist(r.detail_point[cur], PotentialDetailPoint(r, cur, adjacent_box))

\* line 59 dropped: every adjacent box is overwritten
ImprovesAlways(r, adjacent_box, cost_to_child) == TRUE

\* line 59 with <= for <
ImprovesOrEqual(r, adjacent_box, cost_to_child) ==
    \/ adjacent_box \notin DOMAIN r.start_pathcosts
    \/ cost_to_child <= r.start_pathcosts[adjacent_box]

\* the condition of line 59
Improves(r, adjacent_box, cost_to_child) ==
    \/ adjacent_box \notin DOMAIN r.start_pathcosts
    \/ cost_to_child < r.start_pathcosts[adjacent_box]

\* lines 56-63 with line 61 run only for a box that has no record yet: a
\* rediscovery keeps the detail point recorded before
RelaxOneKeepsDetailPoint(r, cur, adjacent_box) ==
    LET potential_detail_point == PotentialDetailPoint(r, cur, adjacent_box)
        cost_to_child == CostToChild(r, cur, adjacent_box)
    IN  IF Improves(r, adjacent_box, cost_to_child)
        THEN Locals(Put(r.boxes, adjacent_box, cur),
                    IF adjacent_box \in DOMAIN r.detail_point
                    THEN r.detail_point
                    ELSE Put(r.detail_point, adjacent_box, potential_detail_point),
                    Put(r.start_pathcosts, adjacent_box, cost_to_child),
                    HeapPush(r.queue, <<cost_to_child, adjacent_box>>))
        ELSE r

\* lines 56-63: the body of the for loop, for one adjacent box
RelaxOne(r, cur, adjacent_box) ==
    LET potential_detail_point == PotentialDetailPoint(r, cur, adjacent_box)
        cost_to_child == CostToChild(r, cur, adjacent_box)
    IN  IF Improves(r, adjacent_box, cost_to_child)
        THEN Locals(Put(r.boxes, adjacent_box, cur),
                    Put(r.detail_point, adjacent_box, potential_detail_point),
                    Put(r.start_pathcosts, adjacent_box, cost_to_child),
                    HeapPush(r.queue, <<cost_to_child, adjacent_box>>))
        ELSE r

RECURSIVE RelaxFrom(_, _, _, _)
\* line 55: the for loop over mesh["adj"][current_box], from position i
\* (nxt, the locals after one iteration, is bound so that it is computed once)
RelaxFrom(r, cur, adjs, i) ==
    IF i > Len(adjs) THEN r
    ELSE CHOOSE out \in {RelaxFrom(nxt, cur, adjs, i + 1) :
                             nxt \in {RelaxOne(r, cur, adjs[i])}} : TRUE

\* lines 55-63 with the for loop left after its first iteration
RelaxAllFirstOnly(r, cur, m) ==
    IF Len(m.adj[cur]) = 0 THEN r ELSE RelaxOne(r, cur, m.adj[cur][1])

\* lines 55-63
RelaxAll(r, cur, m) == RelaxFrom(r, cur, m.adj[cur], 1)

\* path.reverse()
Reverse(s) == [i \in 1..Len(s) |-> s[Len(s) + 1 - i]]

\* lines 51-52 without line 52
FinalPathNoDestination(p, dest) == Reverse(p)

\* lines 51-52
FinalPath(p, dest) == Append(Reverse(p), dest)

\* the keys of boxes without the box whose parent is None
ExploredWithoutRoot(bx) == {b \in DOMAIN bx : bx[b] # None}

\* boxes.keys(), lines 68 and 70
Explored(bx) == DOMAIN bx

\* the boxes of the entries popped so far
PoppedBoxes == {popped[i][2] : i \in 1..Len(popped)}

\* lines 66-70 returning the popped boxes for boxes.keys()
ReturnValuePoppedOnly(p, bx) == [path |-> p, explored |-> PoppedBoxes]

\* lines 66-70: the pair returned for the path the loops left
ReturnValue(p, bx) ==
    IF p = << >> THEN [path |-> << >>, explored |-> Explored(bx)]
    ELSE [path |-> p, explored |-> Explored(bx)]

NoResult == [path |-> << >>, explored |-> {}]

\* no direct call of find_box or calculate_detail_point is made
NoCall == [fn |-> "none"]

\* dijkstras_shortest_path has returned nothing yet
Pending == [kind |-> "pending"]

\* dijkstras_shortest_path is not called
DijkstraIdle ==
    /\ graph = [spaces |-> << >>]
    /\ initial_position = None
    /\ destination = None
    /\ paths = << >>
    /\ pathcosts = << >>
    /\ dsp_queue = {}
    /\ dsp_pc = "idle"
    /\ dsp_result = Pending

Init ==
    /\ call = NoCall
    /\ DijkstraIdle
    /\ mesh \in Meshes
    /\ source_point \in Points
    /\ destination_point \in Points
    /\ pc = "start"
    /\ starting_box = None
    /\ destination_box = None
    /\ path = << >>
    /\ boxes = << >>
    /\ detail_point = << >>
    /\ start_pathcosts = << >>
    /\ queue = {}
    /\ current_box = None
    /\ popped = << >>
    /\ adj_reads = {}
    /\ result = NoResult
    /\ printed = FALSE

\* lines 28-41
Start ==
    /\ pc = "start"
    /\ LET sb == FindBox(source_point, mesh)
       IN  /\ starting_box' = sb
           /\ boxes' = Put(<< >>, sb, None)
           /\ detail_point' = Put(<< >>, sb, source_point)
           /\ start_pathcosts' = Put(<< >>, sb, 0)
           /\ queue' = HeapPush({}, <<0, sb>>)
    /\ destination_box' = FindBox(destination_point, mesh)
    /\ path' = << >>
    /\ pc' = "loop"
    /\ UNCHANGED <<call, dijkstra_vars, mesh, source_point, destination_point,
                   current_box, popped,
                   adj_reads, result, printed>>

\* lines 43-46 with the test of line 46 true: the destination box is popped
PopDestination ==
    /\ pc = "loop"
    /\ queue # {}
    /\ LET e == HeapMin(queue)
       IN  /\ e[2] = destination_box
           /\ queue' = queue \ {e}
           /\ current_box' = e[2]
           /\ popped' = Append(popped, e)
    /\ pc' = "backtrack"
    /\ UNCHANGED <<call, dijkstra_vars, mesh, source_point, destination_point,
                   starting_box,
                   destination_box, path, boxes, detail_point, start_pathcosts,
                   adj_reads, result, printed>>

\* lines 48-50: one iteration of the backtracking loop
BacktrackStep ==
    /\ pc = "backtrack"
    /\ current_box # None
    /\ path' = Append(path, detail_point[current_box])
    /\ current_box' = boxes[current_box]
    /\ UNCHANGED <<call, dijkstra_vars, mesh, source_point, destination_point,
                   pc, starting_box,
                   destination_box, boxes, detail_point, start_pathcosts, queue,
                   popped, adj_reads, result, printed>>

\* line 48 false, lines 51-53, then lines 66 and 70
Finish ==
    /\ pc = "backtrack"
    /\ current_box = None
    /\ path' = FinalPath(path, destination_point)
    /\ result' = ReturnValue(path', boxes)
    /\ printed' = (path' = << >>)
    /\ pc' = "returned"
    /\ UNCHANGED <<call, dijkstra_vars, mesh, source_point, destination_point,
                   starting_box,
                   destination_box, boxes, detail_point, start_pathcosts, queue,
                   current_box, popped, adj_reads>>

\* lines 43-63 with the test of line 46 false: one box is popped and its
\* adjacent boxes are relaxed
PopRelax ==
    /\ pc = "loop"
    /\ queue # {}
    /\ LET e == HeapMin(queue)
           r == RelaxAll(Locals(boxes, detail_point, start_pathcosts,
                                queue \ {e}), e[2], mesh)
       IN  /\ e[2] # destination_box
           /\ e[2] \in DOMAIN mesh.adj
           /\ current_box' = e[2]
           /\ popped' = Append(popped, e)
           /\ adj_reads' = adj_reads \cup {e[2]}
           /\ boxes' = r.boxes
           /\ detail_point' = r.detail_point
           /\ start_pathcosts' = r.start_pathcosts
           /\ queue' = r.queue
    /\ UNCHANGED <<call, dijkstra_vars, mesh, source_point, destination_point,
                   pc, starting_box,
                   destination_box, path, result, printed>>

\* lines 43-55 when mesh["adj"] has no key current_box: line 55 raises
\* KeyError and the call ends without a result
PopRaise ==
    /\ pc = "loop"
    /\ queue # {}
    /\ LET e == HeapMin(queue)
       IN  /\ e[2] # destination_box
           /\ e[2] \notin DOMAIN mesh.adj
           /\ queue' = queue \ {e}
           /\ current_box' = e[2]
           /\ popped' = Append(popped, e)
    /\ pc' = "raised"
    /\ UNCHANGED <<call, dijkstra_vars, mesh, source_point, destination_point,
                   starting_box,
                   destination_box, path, boxes, detail_point, start_pathcosts,
                   adj_reads, result, printed>>

\* line 43 false (the heap is empty), then lines 66-68
Exhausted ==
    /\ pc = "loop"
    /\ queue = {}
    /\ result' = ReturnValue(path, boxes)
    /\ printed' = (path = << >>)
    /\ pc' = "returned"
    /\ UNCHANGED <<call, dijkstra_vars, mesh, source_point, destination_point,
                   starting_box,
                   destination_box, path, boxes, detail_point, start_pathcosts,
                   queue, current_box, popped, adj_reads>>

Next ==
    \/ Start
    \/ PopDestination
    \/ BacktrackStep
    \/ Finish
    \/ PopRelax
    \/ PopRaise
    \/ Exhausted

Spec == Init /\ [][Next]_vars

----------------------------------------------------------------------------
(* Notions the properties are stated in *)

Final == pc \in {"returned", "raised"}

\* both query points were located in a box of the mesh
BothInside == starting_box # None /\ destination_box # None

RECURSIVE ReachFrom(_, _)
ReachFrom(m, S) ==
    LET N == S \cup UNION {Range(m.adj[b]) : b \in S}
    IN  IF N = S THEN S ELSE ReachFrom(m, N)

\* the boxes reachable from box b through the adjacency relation of mesh m
Reachable(m, b) == ReachFrom(m, {b})

RECURSIVE CostFrom(_, _)
CostFrom(p, i) ==
    IF i >= Len(p) THEN 0 ELSE Dist(p[i], p[i + 1]) + CostFrom(p, i + 1)

\* the sum of the lengths of the consecutive segments of a path
PathCost(p) == CostFrom(p, 1)

----------------------------------------------------------------------------
(* The reference unidirectional weighted search of the specification (its    *)
(* section 4.4 with the forward frontier alone): entries are keyed by        *)
(* accrued cost plus the straight-line distance from the detail point to the *)
(* destination point; a finalized box is immutable (section 3).              *)

RefLocals(pa, co, dp, pr, q, fin) ==
    [parent |-> pa, cost |-> co, detail_point |-> dp, priority |-> pr,
     queue |-> q, finalized |-> fin]

RefRelaxOne(r, cur, adjacent_box, goal) ==
    LET candidate == CalculateDetailPoint(adjacent_box, cur, r.detail_point[cur])
        cost_to_child == r.cost[cur] + Dist(r.detail_point[cur], candidate)
        candidate_priority == cost_to_child + Dist(candidate, goal)
    IN  IF adjacent_box \in r.finalized THEN r
        ELSE IF \/ adjacent_box \notin DOMAIN r.priority
                \/ candidate_priority < r.priority[adjacent_box]
        THEN RefLocals(Put(r.parent, adjacent_box, cur),
                       Put(r.cost, adjacent_box, cost_to_child),
                       Put(r.detail_point, adjacent_box, candidate),
                       Put(r.priority, adjacent_box, candidate_priority),
                       HeapPush(r.queue, <<candidate_priority, adjacent_box>>),
                       r.finalized)
        ELSE r

RECURSIVE RefRelaxFrom(_, _, _, _, _)
RefRelaxFrom(r, cur, adjs, i, goal) ==
    IF i > Len(adjs) THEN r
    ELSE RefRelaxFrom(RefRelaxOne(r, cur, adjs[i], goal), cur, adjs, i + 1, goal)

RECURSIVE RefChain(_, _)
\* the detail points on the parent chain from box b back to the origin
RefChain(r, b) ==
    IF b = None THEN << >>
    ELSE <<r.detail_point[b]>> \o RefChain(r, r.parent[b])

RECURSIVE RefLoop(_, _, _, _)
RefLoop(r, m, dest_box, goal) ==
    IF r.queue = {} THEN << >>
    ELSE LET e == HeapMin(r.queue)
             cur == e[2]
             rest == RefLocals(r.parent, r.cost, r.detail_point, r.priority,
                               r.queue \ {e}, r.finalized \cup {cur})
         IN  IF cur = dest_box THEN Append(Reverse(RefChain(r, cur)), goal)
             ELSE RefLoop(RefRelaxFrom(rest, cur, m.adj[cur], 1, goal),
                          m, dest_box, goal)

\* the path of the reference search, << >> when it finds none
RefPath(src, dst, m) ==
    LET sb == FindBox(src, m)
        db == FindBox(dst, m)
    IN  IF sb = None \/ db = None THEN << >>
        ELSE RefLoop(RefLocals(Put(<< >>, sb, None), Put(<< >>, sb, 0),
                               Put(<< >>, sb, src), Put(<< >>, sb, Dist(src, dst)),
                               {<<Dist(src, dst), sb>>}, {}),
                     m, db, dst)

\* find_path runs in one thread, statement after statement: a step that can
\* be taken is taken
FairSpec == Spec /\ WF_vars(Next)

----------------------------------------------------------------------------
(* find_box and calculate_detail_point called directly, on any boxes and   *)
(* any point of a small lattice                                            *)

\* box coordinates and point coordinates are drawn from 0..MaxCoord
MaxCoord == 3

Intervals == {i \in (0..MaxCoord) \X (0..MaxCoord) : i[1] < i[2]}

\* the boxes (x1, x2, y1, y2) of the lattice
Rectangles == {<<i[1], i[2], j[1], j[2]>> : i \in Intervals, j \in Intervals}

LatticePoints == (0..MaxCoord) \X (0..MaxCoord)

\* the lists mesh["boxes"] of at most two boxes, in either order
BoxLists ==
    {<< >>} \cup {<<a>> : a \in Rectangles}
            \cup {<<a, b>> : a \in Rectangles, b \in Rectangles}

FindBoxCalls ==
    {[fn |-> "find_box", point |-> p, mesh |-> [boxes |-> bs]] :
        p \in LatticePoints, bs \in BoxLists}

CalculateDetailPointCalls ==
    {[fn |-> "calculate_detail_point", box1 |-> a, box2 |-> b, point |-> p] :
        a \in Rectangles, b \in Rectangles, p \in LatticePoints}

\* the call has returned: its record holds the value returned
Returned(c) == "ret" \in DOMAIN c

\* find_path is not called
FindPathIdle ==
    /\ mesh = [boxes |-> << >>, adj |-> << >>]
    /\ source_point = <<0, 0>>
    /\ destination_point = <<0, 0>>
    /\ pc = "idle"
    /\ starting_box = None
    /\ destination_box = None
    /\ path = << >>
    /\ boxes = << >>
    /\ detail_point = << >>
    /\ start_pathcosts = << >>
    /\ queue = {}
    /\ current_box = None
    /\ popped = << >>
    /\ adj_reads = {}
    /\ result = NoResult
    /\ printed = FALSE

HelperInit ==
    /\ FindPathIdle
    /\ DijkstraIdle
    /\ call \in FindBoxCalls \cup CalculateDetailPointCalls

\* find_box(point, mesh), lines 72-91
CallFindBox ==
    /\ call.fn = "find_box"
    /\ ~Returned(call)
    /\ call' = [fn |-> call.fn, point |-> call.point, mesh |-> call.mesh,
                ret |-> FindBox(call.point, call.mesh)]
    /\ UNCHANGED <<find_path_vars, dijkstra_vars>>

\* calculate_detail_point(box1, box2, point), lines 93-131
CallCalculateDetailPoint ==
    /\ call.fn = "calculate_detail_point"
    /\ ~Returned(call)
    /\ call' = [fn |-> call.fn, box1 |-> call.box1, box2 |-> call.box2,
                point |-> call.point,
                ret |-> CalculateDetailPoint(call.box1, call.box2, call.point)]
    /\ UNCHANGED <<find_path_vars, dijkstra_vars>>

HelperNext ==
    \/ CallFindBox
    \/ CallCalculateDetailPoint

HelperSpec == HelperInit /\ [][HelperNext]_vars

----------------------------------------------------------------------------
(* dijkstras_shortest_path, lines 145-178, on a level of grid cells with   *)
(* navigation_edges (lines 185-207) as its adj argument, as line 233 calls *)
(* it                                                                      *)

\* the cells of a level are the pairs (column, row) of
\* 0..MaxCol \X 0..MaxRow
MaxCol == 2
MaxRow == 1

Cells == (0..MaxCol) \X (0..MaxRow)

\* the cost of a space, level['spaces'][cell]: 1 everywhere, or 1 and 4 in a
\* checkerboard
SpaceCost(pattern, cell) ==
    IF pattern = "checkerboard" /\ (cell[1] + cell[2]) % 2 = 1 THEN 4 ELSE 1

\* the levels: any set of cells as the spaces, the other cells are walls
Levels ==
    {[spaces |-> [c \in S |-> SpaceCost(pattern, c)]] :
        S \in SUBSET Cells, pattern \in {"uniform", "checkerboard"}}

\* line 202, in the order the list comprehension enumerates
Deltas ==
    << <<-1, -1>>, <<-1, 0>>, <<-1, 1>>, <<0, -1>>, <<0, 1>>,
       <<1, -1>>, <<1, 0>>, <<1, 1>> >>

\* transition_cost(level, cell, cell2), lines 209-212, in units of 1/Scale
TransitionCost(level, cell, cell2) ==
    (Dist(cell, cell2) * (level.spaces[cell] + level.spaces[cell2])) \div 2

\* navigation_edges(level, cell), lines 185-207: the list of (cell, cost)
NavigationEdges(level, cell) ==
    LET News == [i \in 1..Len(Deltas) |->
                    <<cell[1] + Deltas[i][1], cell[2] + Deltas[i][2]>>]
        IsSpace(new) == new \in DOMAIN level.spaces
        Edge(new) == <<new, TransitionCost(level, new, cell)>>
        Spaces == SelectSeq(News, IsSpace)
    IN  [i \in 1..Len(Spaces) |-> Edge(Spaces[i])]

\* Python's empty list, the value of paths[initial_position]
EmptyList == << >>

RECURSIVE path_to_cell(_, _)
\* path_to_cell(cell, paths), lines 180-183
path_to_cell(cell, ps) ==
    IF cell = EmptyList THEN << >>
    ELSE Append(path_to_cell(ps[cell], ps), cell)

\* the locals the for loop of line 171 changes
DijkstraLocals(ps, pcs, q) == [paths |-> ps, pathcosts |-> pcs, queue |-> q]

\* lines 171-176: the body of the for loop, for one child
DijkstraRelaxOne(r, priority, cell, child, level) ==
    LET cost_to_child == priority + TransitionCost(level, cell, child)
    IN  IF \/ child \notin DOMAIN r.pathcosts
           \/ cost_to_child < r.pathcosts[child]
        THEN DijkstraLocals(Put(r.paths, child, cell),
                            Put(r.pathcosts, child, cost_to_child),
                            HeapPush(r.queue, <<cost_to_child, child>>))
        ELSE r

RECURSIVE DijkstraRelaxFrom(_, _, _, _, _, _)
\* line 171: the for loop over adj(graph, cell), from position i
DijkstraRelaxFrom(r, priority, cell, edges, i, level) ==
    IF i > Len(edges) THEN r
    ELSE CHOOSE out \in
             {DijkstraRelaxFrom(nxt, priority, cell, edges, i + 1, level) :
                 nxt \in {DijkstraRelaxOne(r, priority, cell, edges[i][1],
                                           level)}} : TRUE

\* the value of line 178 as the docstring (lines 155-156) gives it
ExhaustedValueNone == [kind |-> "None"]

\* the value of line 178
ExhaustedValue == [kind |-> "False"]

DijkstraInit ==
    /\ FindPathIdle
    /\ call = NoCall
    /\ graph \in Levels
    /\ initial_position \in DOMAIN graph.spaces
    /\ destination \in Cells
    /\ paths = << >>
    /\ pathcosts = << >>
    /\ dsp_queue = {}
    /\ dsp_pc = "start"
    /\ dsp_result = Pending

\* lines 158-161
DijkstraStart ==
    /\ dsp_pc = "start"
    /\ paths' = Put(<< >>, initial_position, EmptyList)
    /\ pathcosts' = Put(<< >>, initial_position, 0)
    /\ dsp_queue' = HeapPush({}, <<0, initial_position>>)
    /\ dsp_pc' = "loop"
    /\ UNCHANGED <<find_path_vars, call, graph, initial_position, destination,
                   dsp_result>>

\* lines 163-168 with the test of line 167 true: the destination is popped
DijkstraPopDestination ==
    /\ dsp_pc = "loop"
    /\ dsp_queue # {}
    /\ LET e == HeapMin(dsp_queue)
       IN  /\ e[2] = destination
           /\ dsp_queue' = dsp_queue \ {e}
           /\ dsp_result' = [kind |-> "list", value |-> path_to_cell(e[2], paths)]
    /\ dsp_pc' = "returned"
    /\ UNCHANGED <<find_path_vars, call, graph, initial_position, destination,
                   paths, pathcosts>>

\* lines 163-176 with the test of line 167 false: one iteration of the loop
DijkstraPopRelax ==
    /\ dsp_pc = "loop"
    /\ dsp_queue # {}
    /\ LET e == HeapMin(dsp_queue)
           r == DijkstraRelaxFrom(
                    DijkstraLocals(paths, pathcosts, dsp_queue \ {e}),
                    e[1], e[2], NavigationEdges(graph, e[2]), 1, graph)
       IN  /\ e[2] # destination
           /\ paths' = r.paths
           /\ pathcosts' = r.pathcosts
           /\ dsp_queue' = r.queue
    /\ UNCHANGED <<find_path_vars, call, graph, initial_position, destination,
                   dsp_pc, dsp_result>>

\* line 163 false (the heap is empty), then line 178
DijkstraExhausted ==
    /\ dsp_pc = "loop"
    /\ dsp_queue = {}
    /\ dsp_result' = ExhaustedValue
    /\ dsp_pc' = "returned"
    /\ UNCHANGED <<find_path_vars, call, graph, initial_position, destination,
                   paths, pathcosts, dsp_queue>>

DijkstraNext ==
    \/ DijkstraStart
    \/ DijkstraPopDestination
    \/ DijkstraPopRelax
    \/ DijkstraExhausted

DijkstraSpec == DijkstraInit /\ [][DijkstraNext]_vars

----------------------------------------------------------------------------
(* Properties *)

\* C1: whenever find_path returns a non-empty path, its first point is the
\* source point and its last point is the destination point.
C1_PathStartsAtSourceEndsAtDestination ==
    (pc = "returned" /\ result.path # << >>)
        => /\ result.path[1] = source_point
           /\ result.path[Len(result.path)] = destination_point

\* C2: whenever find_path returns a non-empty path, its cost is at most the
\* cost of the path the reference unidirectional weighted search finds on the
\* same mesh and query.
C2_NotWorseThanReference ==
    (pc = "returned" /\ result.path # << >> /\ BothInside)
        => LET reference == RefPath(source_point, destination_point, mesh)
           IN  reference # << >>
                   => PathCost(result.path) <= PathCost(reference)

\* C3: with both query points inside the mesh, find_path returns, and what it
\* returns is a non-empty path exactly when the destination box is reachable
\* from the source box through the adjacency relation.
C3_PathIffReachable ==
    (Final /\ BothInside)
        => /\ pc = "returned"
           /\ (result.path # << >>)
                  <=> (destination_box \in Reachable(mesh, starting_box))

\* C3 happens: a path was returned to a box two or more boxes away
C3_Witness ==
    /\ pc = "returned"
    /\ BothInside
    /\ destination_box \in Reachable(mesh, starting_box)
    /\ destination_box \notin Range(mesh.adj[starting_box]) \cup {starting_box}
    /\ Len(result.path) >= 4

\* C3 happens also the other way: no path to a box that is not reachable,
\* after more than one box was popped
C3_WitnessUnreachable ==
    /\ pc = "returned"
    /\ BothInside
    /\ destination_box \notin Reachable(mesh, starting_box)
    /\ Len(popped) >= 2

\* C4: if the source point or the destination point lies outside every box,
\* find_path returns an empty path and explores nothing: no box is popped, no
\* adjacency list is read and the returned explored set contains no box.
C4_OutsideExploresNothing ==
    (pc # "start" /\ ~BothInside)
        => /\ pc # "raised"
           /\ popped = << >>
           /\ adj_reads = {}
           /\ pc = "returned"
                  => /\ result.path = << >>
                     /\ result.explored \cap Range(mesh.boxes) = {}

\* the shape of the outcome of a query whose destination box is not reachable
\* (NoPathExists): the call returns the empty path, "No path found" printed
NoPathExistsOutcome == pc = "returned" /\ result.path = << >> /\ printed

\* C5: the outcome for a query with an endpoint outside every box
\* (PointOutsideMesh) does not have the shape of the NoPathExists outcome.
C5_FailureKindsDistinguishable ==
    (Final /\ ~BothInside) => ~NoPathExistsOutcome

\* C6 as claimed: with the source box and the destination box in different
\* connected components, find_path returns an empty path and the explored set
\* is the boxes reachable from the source box together with the boxes
\* reachable from the destination box.
C6_ExploredBothComponents ==
    (Final /\ BothInside /\ destination_box \notin Reachable(mesh, starting_box))
        => /\ NoPathExistsOutcome
           /\ result.explored = Reachable(mesh, starting_box)
                                    \cup Reachable(mesh, destination_box)

\* C6 amended: with the source box and the destination box in different
\* connected components, find_path returns an empty path (no exception) and
\* the explored set is exactly the set of boxes reachable from the source box.
C6_ExploredSourceComponent ==
    (Final /\ BothInside /\ destination_box \notin Reachable(mesh, starting_box))
        => /\ NoPathExistsOutcome
           /\ result.explored = Reachable(mesh, starting_box)

\* C6 happens: a search exhausted a component of two or more boxes
C6_Witness ==
    /\ pc = "returned"
    /\ BothInside
    /\ destination_box \notin Reachable(mesh, starting_box)
    /\ Cardinality(Reachable(mesh, starting_box)) >= 2
    /\ Len(popped) >= 2

\* C7: if find_box locates the source point and the destination point in the
\* same box, find_path returns exactly [source, destination].
C7_SameBoxPath ==
    (Final /\ BothInside /\ starting_box = destination_box)
        => /\ pc = "returned"
           /\ result.path = <<source_point, destination_point>>

\* C7 happens: two different points of one box that has neighbours
C7_Witness ==
    /\ pc = "returned"
    /\ BothInside
    /\ starting_box = destination_box
    /\ source_point # destination_point
    /\ mesh.adj[starting_box] # << >>

\* the boxes of the entries ever pushed: those popped and those still queued
PushedBoxes == PoppedBoxes \cup {e[2] : e \in queue}

\* C8 as claimed: on success the returned set is exactly the set of boxes
\* popped from the queue during the search.
C8_ExploredIsPoppedSet ==
    (pc = "returned" /\ result.path # << >>) => result.explored = PoppedBoxes

\* C8 amended: on success the returned set is exactly the set of boxes
\* discovered during the search (every box an entry was pushed for); it holds
\* every popped box, and also the boxes pushed but never popped.
C8_ExploredIsDiscoveredSet ==
    (pc = "returned" /\ result.path # << >>)
        => /\ result.explored = PushedBoxes
           /\ PoppedBoxes \subseteq result.explored

\* C8 happens: a path was returned while a discovered box was never popped
C8_Witness ==
    /\ pc = "returned"
    /\ result.path # << >>
    /\ PushedBoxes \ PoppedBoxes # {}
    /\ Len(popped) >= 2

\* the mesh is exactly two boxes, each adjacent to the other
TwoAdjacentBoxes ==
    /\ Len(mesh.boxes) = 2
    /\ mesh.boxes[1] # mesh.boxes[2]
    /\ mesh.boxes[2] \in Range(mesh.adj[mesh.boxes[1]])
    /\ mesh.boxes[1] \in Range(mesh.adj[mesh.boxes[2]])

\* the point p with each coordinate moved into the overlap rectangle
\* (max of the minima, min of the maxima) of the boxes a and b
ClampedIntoOverlap(p, a, b) ==
    <<Max2(Max2(a[1], b[1]), Min2(p[1], Min2(a[2], b[2]))),
      Max2(Max2(a[3], b[3]), Min2(p[2], Min2(a[4], b[4])))>>

\* C9: in a mesh of exactly two adjacent boxes A and B, with the source
\* located in A and the destination located in B, find_path returns exactly
\* [source, the source clamped into the overlap rectangle of A and B,
\* destination]; for A = (0,1,0,1), B = (1,2,0,1), source (0.2,0.5) and
\* destination (1.8,0.5), in tenths, that is [(2,5), (10,5), (18,5)].
C9_TwoBoxPath ==
    /\ (Final /\ TwoAdjacentBoxes /\ BothInside /\ starting_box # destination_box)
           => /\ pc = "returned"
              /\ result.path =
                     <<source_point,
                       ClampedIntoOverlap(source_point, starting_box,
                                          destination_box),
                       destination_point>>
    /\ (/\ Final
        /\ mesh.boxes = UnitBoxes
        /\ source_point = <<2, 5>>
        /\ destination_point = <<18, 5>>)
           => result.path = << <<2, 5>>, <<10, 5>>, <<18, 5>> >>

\* C9 happens: the scenario of the two unit boxes has returned
C9_Witness ==
    /\ pc = "returned"
    /\ TwoAdjacentBoxes
    /\ mesh.boxes = UnitBoxes
    /\ source_point = <<2, 5>>
    /\ destination_point = <<18, 5>>
    /\ Len(result.path) = 3

\* C10: once a box has been popped from the queue, its recorded parent,
\* accrued cost and detail point never change in any later step of the search.
C10_PoppedRecordNeverChanges ==
    [][\A b \in PoppedBoxes :
          /\ b \in DOMAIN boxes'
          /\ boxes'[b] = boxes[b]
          /\ start_pathcosts'[b] = start_pathcosts[b]
          /\ detail_point'[b] = detail_point[b]]_vars

\* C10 happens: a stale entry of an already popped box was popped, and
\* another box was popped after it
C10_Witness ==
    \E i, j \in 1..Len(popped) :
        /\ i < j
        /\ j < Len(popped)
        /\ popped[i][2] = popped[j][2]
        /\ popped[i][1] < popped[j][1]

\* the entries pushed so far: those popped and those still queued
PushedEntries == Range(popped) \cup queue

\* C11: relaxing an adjacent box overwrites its parent, accrued cost and
\* detail point and pushes an entry for it exactly when the box is
\* undiscovered or the candidate value is strictly lower than the recorded
\* one; otherwise the record of the box and the queue are unchanged, and the
\* record of no other box is touched.
C11_RelaxationEffect ==
    [][(pc = "loop" /\ pc' = "loop" /\ Len(popped') = Len(popped) + 1) =>
        LET e == popped'[Len(popped')]
            cur == e[2]
            neighbours == Range(mesh.adj[cur])
            Candidate(a) == ClampedIntoOverlap(detail_point[cur], a, cur)
            Value(a) == start_pathcosts[cur]
                            + Dist(detail_point[cur], Candidate(a))
            Overwrites(a) == \/ a \notin DOMAIN start_pathcosts
                             \/ Value(a) < start_pathcosts[a]
        IN  /\ \A a \in neighbours :
                  IF Overwrites(a)
                  THEN /\ a \in DOMAIN boxes'
                       /\ boxes'[a] = cur
                       /\ start_pathcosts'[a] = Value(a)
                       /\ detail_point'[a] = Candidate(a)
                       /\ <<Value(a), a>> \in queue'
                  ELSE /\ boxes'[a] = boxes[a]
                       /\ start_pathcosts'[a] = start_pathcosts[a]
                       /\ detail_point'[a] = detail_point[a]
            /\ queue' = (queue \ {e})
                            \cup {<<Value(a), a>> :
                                     a \in {n \in neighbours : Overwrites(n)}}
            /\ DOMAIN boxes' = DOMAIN boxes \cup neighbours
            /\ \A b \in DOMAIN boxes \ neighbours :
                  /\ boxes'[b] = boxes[b]
                  /\ start_pathcosts'[b] = start_pathcosts[b]
                  /\ detail_point'[b] = detail_point[b]]_vars

\* C11 happens: the search has overwritten the record of a discovered box
\* (two entries were pushed for it) and has left a relaxed box unchanged (the
\* parent of a popped box is adjacent to it and was relaxed from it)
C11_Witness ==
    /\ pc = "loop"
    /\ \E e, f \in PushedEntries : e[2] = f[2] /\ e[1] < f[1]
    /\ \E i \in 1..Len(popped) :
          /\ popped[i][2] # starting_box
          /\ boxes[popped[i][2]] \in Range(mesh.adj[popped[i][2]])

\* C12: every entry find_path pushes for a box is keyed by the accrued cost
\* of the box plus the straight-line distance from its detail point to the
\* destination point, and the entry popped at each step has the lowest key
\* among the queued entries.  Stated for the entries line 63 pushes when
\* both points lie inside the mesh: the
\* current record of every discovered box other than the source box was
\* pushed under that key, and no queued entry has a key below the key of the
\* entry popped last.
C12_KeyedByCostPlusDistance ==
    (pc = "loop" /\ BothInside) =>
        /\ \A b \in DOMAIN start_pathcosts \ {starting_box} :
              <<start_pathcosts[b] + Dist(detail_point[b], destination_point), b>>
                  \in PushedEntries
        /\ \A f \in queue :
              popped # << >> => popped[Len(popped)][1] <= f[1]

RECURSIVE AdjacencyEntries(_, _)
\* the number of entries of the adjacency lists of the boxes i.. of mesh m
AdjacencyEntries(m, i) ==
    IF i > Len(m.boxes) THEN 0
    ELSE Len(m.adj[m.boxes[i]]) + AdjacencyEntries(m, i + 1)

\* C13: for every finite mesh with symmetric adjacency and both points
\* inside the mesh, find_path eventually returns: the main loop stops after
\* finitely many pops (at most one for the seed and one for each entry of an
\* adjacency list) and the backtracking loop stops after finitely many steps
\* (at most one for each discovered box).
C13_EventuallyReturns ==
    /\ [](BothInside =>
              /\ Len(popped) <= 1 + AdjacencyEntries(mesh, 1)
              /\ pc = "backtrack" => Len(path) <= Cardinality(DOMAIN boxes))
    /\ ((pc = "loop" /\ BothInside) ~> (pc = "returned"))

\* C13 happens: a search with both points inside has returned after a main
\* loop of several pops, one of them of a stale entry, and a backtracking
\* loop of several steps
C13_Witness ==
    /\ pc = "returned"
    /\ BothInside
    /\ Len(popped) > Cardinality(PoppedBoxes)
    /\ Len(path) >= 4

\* the ranges of the boxes a and b overlap or touch on both axes
OverlapOrTouch(a, b) ==
    /\ Max2(a[1], b[1]) <= Min2(a[2], b[2])
    /\ Max2(a[3], b[3]) <= Min2(a[4], b[4])

\* the point p is inside the closed ranges of the box b
Inside(b, p) == b[1] <= p[1] /\ p[1] <= b[2] /\ b[3] <= p[2] /\ p[2] <= b[4]

\* C14: for any two boxes whose ranges overlap or touch on both axes and any
\* reference point, calculate_detail_point returns a point inside both
\* boxes, equal to the reference point with each coordinate clamped into the
\* overlap interval; a point already inside the overlap is returned unchanged.
C14_DetailPointClampedIntoOverlap ==
    (/\ call.fn = "calculate_detail_point"
     /\ Returned(call)
     /\ OverlapOrTouch(call.box1, call.box2))
        => /\ Inside(call.box1, call.ret)
           /\ Inside(call.box2, call.ret)
           /\ call.ret = ClampedIntoOverlap(call.point, call.box1, call.box2)
           /\ (Inside(call.box1, call.point) /\ Inside(call.box2, call.point))
                  => call.ret = call.point

\* C14 happens: a call on two boxes that only touch, with a reference point
\* outside both of them, has returned a point that differs from it in both
\* coordinates
C14_Witness ==
    /\ call.fn = "calculate_detail_point"
    /\ Returned(call)
    /\ OverlapOrTouch(call.box1, call.box2)
    /\ call.box1[2] = call.box2[1]
    /\ ~Inside(call.box1, call.point)
    /\ ~Inside(call.box2, call.point)
    /\ call.ret[1] # call.point[1]
    /\ call.ret[2] # call.point[2]

\* the interiors of the boxes of the list bs are pairwise disjoint
DisjointInteriors(bs) ==
    \A i, j \in 1..Len(bs) :
        i # j => ~(/\ Max2(bs[i][1], bs[j][1]) < Min2(bs[i][2], bs[j][2])
                   /\ Max2(bs[i][3], bs[j][3]) < Min2(bs[i][4], bs[j][4]))

\* the point p is strictly inside the box b
StrictlyInside(b, p) ==
    b[1] < p[1] /\ p[1] < b[2] /\ b[3] < p[2] /\ p[2] < b[4]

\* C15: find_box returns the first box in the enumeration order of the mesh
\* whose closed ranges contain the point (boundaries inclusive), and the
\* no-box value when there is none; so in a mesh whose boxes have disjoint
\* interiors, for a point strictly inside a box B, find_box returns B.
C15_FindBoxFirstContaining ==
    (call.fn = "find_box" /\ Returned(call))
        => LET bs == call.mesh.boxes
               hits == {i \in 1..Len(bs) : Inside(bs[i], call.point)}
           IN  /\ hits = {} => call.ret = None
               /\ \A i \in hits :
                     (\A j \in hits : i <= j) => call.ret = bs[i]
               /\ DisjointInteriors(bs) =>
                     \A i \in 1..Len(bs) :
                         StrictlyInside(bs[i], call.point) => call.ret = bs[i]

\* C15 happens: the point lies on the common boundary of two different
\* boxes with disjoint interiors, and the call returned the first of them
C15_Witness ==
    /\ call.fn = "find_box"
    /\ Returned(call)
    /\ Len(call.mesh.boxes) = 2
    /\ call.mesh.boxes[1] # call.mesh.boxes[2]
    /\ DisjointInteriors(call.mesh.boxes)
    /\ Inside(call.mesh.boxes[1], call.point)
    /\ Inside(call.mesh.boxes[2], call.point)
    /\ call.ret = call.mesh.boxes[1]

\* C15 happens also in its second case: the point lies strictly inside the
\* second of two boxes with disjoint interiors, and the call returned it
C15_WitnessStrictlyInside ==
    /\ call.fn = "find_box"
    /\ Returned(call)
    /\ Len(call.mesh.boxes) = 2
    /\ DisjointInteriors(call.mesh.boxes)
    /\ StrictlyInside(call.mesh.boxes[2], call.point)
    /\ call.ret = call.mesh.boxes[2]

RECURSIVE ParentChain(_, _, _)
\* the boxes met by following the parents bx from box b, at most fuel of them
ParentChain(bx, b, fuel) ==
    IF b = None \/ fuel = 0 \/ b \notin DOMAIN bx THEN << >>
    ELSE <<b>> \o ParentChain(bx, bx[b], fuel - 1)

Prefix(p, n) == [i \in 1..n |-> p[i]]

\* C17: in every reachable state each discovered box b other than the source
\* box satisfies cost[b] = cost[parent[b]] + distance(detail point of
\* parent[b], detail point of b), with the parent's current record; so on
\* success the cost recorded for the destination box is the length of the
\* returned path without its final segment.
C17_CostIsParentCostPlusSegment ==
    /\ pc \in {"loop", "backtrack", "returned", "raised"} =>
          \A b \in DOMAIN boxes \ {starting_box} :
              /\ boxes[b] \in DOMAIN boxes
              /\ start_pathcosts[b] =
                     start_pathcosts[boxes[b]]
                         + Dist(detail_point[boxes[b]], detail_point[b])
    /\ (pc = "returned" /\ result.path # << >>) =>
          start_pathcosts[destination_box] =
              PathCost(Prefix(result.path, Len(result.path) - 1))

\* C17 happens: a path was returned whose destination box has a parent with
\* a parent, each of the two at a positive cost below its child's
C17_Witness ==
    /\ pc = "returned"
    /\ result.path # << >>
    /\ destination_box # starting_box
    /\ boxes[destination_box] # starting_box
    /\ 0 < start_pathcosts[boxes[destination_box]]
    /\ start_pathcosts[boxes[destination_box]] < start_pathcosts[destination_box]

C19_KeysNonDecreasingStalePopsInert ==
    [][Len(popped') = Len(popped) + 1 =>
        LET e == popped'[Len(popped')]
        IN  /\ popped # << >> => popped[Len(popped)][1] <= e[1]
            /\ e \in queue
            /\ e[1] > start_pathcosts[e[2]] =>
                  /\ boxes' = boxes
                  /\ start_pathcosts' = start_pathcosts
                  /\ detail_point' = detail_point
                  /\ queue' = queue \ {e}]_vars

\* C19 happens: the entry popped last is a stale one, popped after entries
\* of lower keys, and its box has adjacent boxes that were relaxed
C19_Witness ==
    /\ pc = "loop"
    /\ Len(popped) >= 3
    /\ LET e == popped[Len(popped)]
       IN  /\ e[1] > start_pathcosts[e[2]]
           /\ popped[1][1] < e[1]
           /\ mesh.adj[e[2]] # << >>

\* the spaces next to the cell c, diagonals included
AdjacentSpaces(level, c) ==
    {n \in DOMAIN level.spaces :
        /\ n # c
        /\ n[1] - c[1] \in {-1, 0, 1}
        /\ n[2] - c[2] \in {-1, 0, 1}}

RECURSIVE ShortestFrom(_, _, _)
\* the pairs <<cell, cost>> of the spaces that walks of at most k steps from
\* the cell src reach, with the least total transition cost of such a walk
ShortestFrom(level, src, k) ==
    IF k = 0 THEN {<<src, 0>>}
    ELSE CHOOSE best \in
             {{p \in cands : \A q \in cands : q[1] = p[1] => p[2] <= q[2]} :
                 cands \in
                     {D \cup UNION {{<<c, e[2] + TransitionCost(level, e[1], c)>> :
                                       c \in AdjacentSpaces(level, e[1])} :
                                     e \in D} :
                         D \in {ShortestFrom(level, src, k - 1)}}} : TRUE

\* the least total transition cost from initial_position to every space
\* that can be reached from it
LeastCosts ==
    ShortestFrom(graph, initial_position, Cardinality(DOMAIN graph.spaces))

RECURSIVE WalkCostFrom(_, _, _)
WalkCostFrom(level, p, i) ==
    IF i >= Len(p) THEN 0
    ELSE TransitionCost(level, p[i], p[i + 1]) + WalkCostFrom(level, p, i + 1)

\* the total transition cost of the list of cells p
WalkCost(level, p) == WalkCostFrom(level, p, 1)

\* the destination can be reached from initial_position
DestinationReachable == \E p \in LeastCosts : p[1] = destination

\* the value returned is a list of cells from initial_position to
\* destination, consecutive cells adjacent, of the least total cost
ReturnedMinimumCostPath ==
    /\ dsp_result.kind = "list"
    /\ LET p == dsp_result.value
       IN  /\ Len(p) >= 1
           /\ p[1] = initial_position
           /\ p[Len(p)] = destination
           /\ \A k \in 1..(Len(p) - 1) :
                 p[k + 1] \in AdjacentSpaces(graph, p[k])
           /\ <<destination, WalkCost(graph, p)>> \in LeastCosts

\* C20: dijkstras_shortest_path, on a graph with non-negative transition
\* costs: if the destination is reachable from initial_position it returns
\* a list of cells that starts with initial_position, ends with destination,
\* has consecutive cells adjacent and has the minimum total transition
\* cost; otherwise it returns None.
C20_MinimumCostPathOrNone ==
    dsp_pc = "returned" =>
        IF DestinationReachable THEN ReturnedMinimumCostPath
        ELSE dsp_result = ExhaustedValueNone

\* the first half of C20 alone: a reachable destination gets a path of the
\* minimum cost
DijkstraReachableGetsMinimumCostPath ==
    (dsp_pc = "returned" /\ DestinationReachable) => ReturnedMinimumCostPath

\* what the code does in the other half: an unreachable destination gets
\* the value False
DijkstraUnreachableGetsFalse ==
    (dsp_pc = "returned" /\ ~DestinationReachable)
        => dsp_result = ExhaustedValue

\* a reachable destination was given a path of three cells that costs less
\* than the one-step path between its ends
DijkstraDetourReturned ==
    /\ dsp_pc = "returned"
    /\ dsp_result.kind = "list"
    /\ Len(dsp_result.value) = 3
    /\ destination \in AdjacentSpaces(graph, initial_position)

====
